---------------------------- MODULE Spec2Model ----------------------------
(***************************************************************************)
(* RestroIQ lead CRM: the browser's IndexedDB store (lib/db.js), the REST  *)
(* backend over the hosted database (backend/routes/*.js, server.js) and   *)
(* the "today's calls" view (routes/TodaysCalls.jsx).                      *)
(*                                                                         *)
(* Text is modelled as a sequence of characters, so that the regular       *)
(* expressions of validateLead and the string comparison of dates are      *)
(* computed and not assumed.  A date "2026-11-0d" is the one-character     *)
(* sequence <<d>>; an ISO timestamp "2026-11-0dT..." is <<d, T>>.  A       *)
(* missing value (undefined, null, '') is the empty text: the code tests   *)
(* these values for truthiness only.                                       *)
(*                                                                         *)
(* Fields no property below reads (city, notes, createdAt, updatedAt,     *)
(* followUpId) are left out of the records.                                *)
(***************************************************************************)
EXTENDS Integers, Sequences, FiniteSets, TLC

VARIABLES
    side,           \* which program runs: "client" (db.js) or "server" (server.js)
    leads,          \* IndexedDB object store 'leads': leadId -> lead
    followUps,      \* IndexedDB object store 'followUps', in insertion order
    db_leads,       \* database table leads: lead_id -> row
    db_follow_ups,  \* database table follow_ups, in insertion order
    nextId,         \* the next identifier a create will draw
    now,            \* the clock: new Date().toISOString()
    resp            \* outcome of the last operation

vars == <<side, leads, followUps, db_leads, db_follow_ups, nextId, now, resp>>

---------------------------------------------------------------------------
\* Bounds of the model

MaxLeads == 2
MaxFollowUps == 2
MaxDay == 2
MaxViewLeads == 1
MaxSortLeads == 3
MaxStatsLeads == 1

---------------------------------------------------------------------------
\* Text

NoText == <<>>

\* JavaScript truthiness of a text: undefined, null and '' are falsy.
Truthy(v) == v # <<>>

\* The separator between date and time in Date.prototype.toISOString().
T == 9

RECURSIVE StrLess(_, _)
\* a < b on strings: character by character, a proper prefix is smaller.
StrLess(a, b) ==
    IF b = <<>> THEN FALSE
    ELSE IF a = <<>> THEN TRUE
    ELSE IF Head(a) # Head(b) THEN Head(a) < Head(b)
    ELSE StrLess(Tail(a), Tail(b))

StrLE(a, b) == a = b \/ StrLess(a, b)

RECURSIVE SplitT(_)
\* s.split('T')[0]
SplitT(s) ==
    IF s = <<>> \/ Head(s) = T THEN <<>>
    ELSE <<Head(s)>> \o SplitT(Tail(s))

Includes(s, c) == \E i \in 1..Len(s) : s[i] = c

\* s.startsWith(p)
StartsWith(s, p) == Len(s) >= Len(p) /\ SubSeq(s, 1, Len(p)) = p

Days == 1..MaxDay
DateOnly(d) == <<d>>
Timestamp(d) == <<d, T>>
todayStr == SplitT(now)

\* A time of day with a UTC offset that puts the instant on the next UTC day,
\* as in "2026-11-0dT23:30:00-05:00".
Offset == 8
OffsetTimestamp(d) == <<d, T, Offset>>

\* A text that is no date, as in "tomorrow".
NotADate == <<T>>

\* new Date(s): the UTC day of the instant, InvalidDate for a text that does
\* not parse.  A date without a time is midnight UTC of that day; a timestamp
\* as toISOString writes it is in UTC already.
InvalidDate == 0
NewDate(s) ==
    IF Len(s) = 1 /\ s[1] \notin {T, Offset} THEN s[1]
    ELSE IF Len(s) = 2 /\ s[1] \notin {T, Offset} /\ s[2] = T THEN s[1]
    ELSE IF Len(s) = 3 /\ s[1] \notin {T, Offset} /\ s[2] = T /\ s[3] = Offset
         THEN s[1] + 1
    ELSE InvalidDate

\* Date.prototype.toISOString of a valid date
toISOString(day) == Timestamp(day)

---------------------------------------------------------------------------
\* Enumerations

VALID_STATUSES ==
    {"New", "Call not picked up", "Sent details on WhatsApp", "Follow up",
     "On going", "Fake lead", "Reject", "Converted", "Not Interested",
     "Interested", "Demo Scheduled", "Pending"}

stagePriority(stage) ==
    CASE stage = "Hot" -> 3
      [] stage = "Warm" -> 2
      [] stage = "Cold" -> 1
      [] stage = "Closed" -> 0
      [] OTHER -> 0

---------------------------------------------------------------------------
\* validateLead

NameClass == {"a", "1", " ", "-", ".", ",", "&", "(", ")", "'"}
PhoneClass == {"1", "+", "-", " ", "(", ")"}

\* /^[class]+$/.test(s)
RegexTest(class, s) == s # <<>> /\ \A i \in 1..Len(s) : s[i] \in class

\* A faulty validateLead: the check for < and > is lost.
validateLead_noAngleCheck(data) ==
    IF ~Truthy(data.restaurantName) THEN "Restaurant Name is required"
    ELSE IF ~Truthy(data.phone) THEN "Phone is required"
    ELSE IF ~RegexTest(PhoneClass, data.phone) THEN "Invalid phone number format."
    ELSE "ok"

\* The message of the error validateLead throws, "ok" when it returns true.
validateLead(data) ==
    IF ~Truthy(data.restaurantName) THEN "Restaurant Name is required"
    ELSE IF ~RegexTest(NameClass, data.restaurantName)
            /\ (Includes(data.restaurantName, "<") \/ Includes(data.restaurantName, ">"))
         THEN "Invalid characters in name. Please remove < or > symbols."
    ELSE IF ~Truthy(data.phone) THEN "Phone is required"
    ELSE IF ~RegexTest(PhoneClass, data.phone) THEN "Invalid phone number format."
    ELSE "ok"

---------------------------------------------------------------------------
\* Inputs

NameInputs == {<<>>, <<"a">>, <<"a", "<">>, <<">">>, <<"{">>}
PhoneInputs == {<<>>, <<"1">>, <<"1", "a">>}

\* The leadId of an input that carries none (undefined).
NoId == -1

\* What a caller passes to addLead or POSTs to /api/leads: each of the names
\* with each of the phones and the other fields left out ("", <<>> and NoId:
\* not given), and a lead that carries every field, the leadId of the first
\* lead ever created included.
LeadInputs(names, phones) ==
    { [leadId |-> NoId, restaurantName |-> n, phone |-> p, currentStatus |-> "",
       leadStage |-> "", nextFollowUpDate |-> NoText]
        : n \in names, p \in phones }
    \cup
    { [leadId |-> 1, restaurantName |-> <<"a">>, phone |-> <<"1">>,
       currentStatus |-> "Converted", leadStage |-> "Hot",
       nextFollowUpDate |-> DateOnly(1)] }

\* What an edit form sends for a stored lead.
EditInputs ==
    { [restaurantName |-> <<"a">>, phone |-> <<"1">>, currentStatus |-> "Reject",
       leadStage |-> "Warm", nextFollowUpDate |-> DateOnly(MaxDay),
       lastFollowUpDate |-> NoText],
      [restaurantName |-> <<"a", "<">>, phone |-> <<"1", "a">>, currentStatus |-> "New",
       leadStage |-> "Cold", nextFollowUpDate |-> NoText,
       lastFollowUpDate |-> Timestamp(MaxDay)] }

\* An identifier no create ever draws.
GhostId == 0

\* What a caller passes to addFollowUp or POSTs to /api/follow-ups.
FollowUpInputs(ids) ==
    { [leadId |-> i, followUpDate |-> f.date, status |-> f.status,
       nextFollowUpDate |-> f.next, leadStage |-> f.stage]
        : i \in ids \cup {GhostId},
          f \in { [date |-> NoText, status |-> "Follow up",
                   next |-> DateOnly(MaxDay), stage |-> ""],
                  [date |-> NoText, status |-> "Converted",
                   next |-> NoText, stage |-> ""],
                  [date |-> Timestamp(MaxDay), status |-> "Follow up",
                   next |-> DateOnly(1), stage |-> "Hot"] } }

---------------------------------------------------------------------------
\* Responses

\* What an operation answered: the value or error of a db.js promise, the
\* status and JSON body of an HTTP response.  arg is the id it was asked about.
Resp(op, arg, status, body, error) ==
    [op |-> op, arg |-> arg, status |-> status, body |-> body, error |-> error]

\* The elements of a store in key order: db.getAll('leads')
RECURSIVE GetAll(_, _)
GetAll(store, keys) ==
    IF keys = {} THEN <<>>
    ELSE LET k == CHOOSE x \in keys : \A y \in keys : x <= y
         IN <<store[k]>> \o GetAll(store, keys \ {k})

Range(s) == {s[i] : i \in 1..Len(s)}

---------------------------------------------------------------------------
\* lib/db.js: the client store

getLeads(includeArchived) ==
    /\ side = "client"
    /\ LET all == GetAll(leads, DOMAIN leads)
           NotArchived(l) == ~l.isArchived
           out == IF ~includeArchived THEN SelectSeq(all, NotArchived) ELSE all
       IN resp' = Resp("getLeads", includeArchived, "resolved", out, "")
    /\ UNCHANGED <<side, leads, followUps, db_leads, db_follow_ups, nextId, now>>

getLead(id) ==
    /\ side = "client"
    /\ resp' = Resp("getLead", id, "resolved",
                    IF id \in DOMAIN leads THEN <<leads[id]>> ELSE <<>>, "")
    /\ UNCHANGED <<side, leads, followUps, db_leads, db_follow_ups, nextId, now>>

\* A faulty newLead: the leadId of the input, when it carries one, is kept.
newLead_keepsInputId(leadData, leadId) ==
    [leadId |-> IF leadData.leadId # NoId THEN leadData.leadId ELSE leadId,
     restaurantName |-> leadData.restaurantName,
     phone |-> leadData.phone,
     currentStatus |-> IF leadData.currentStatus # "" THEN leadData.currentStatus ELSE "New",
     leadStage |-> IF leadData.leadStage # "" THEN leadData.leadStage ELSE "Cold",
     nextFollowUpDate |-> leadData.nextFollowUpDate,
     lastFollowUpDate |-> NoText,
     isArchived |-> FALSE]

\* The record addLead builds from its input: the fields of the input, then
\* the drawn leadId over whatever leadId the input carried.
newLead(leadData, leadId) ==
    [leadId |-> leadId,
     restaurantName |-> leadData.restaurantName,
     phone |-> leadData.phone,
     currentStatus |-> IF leadData.currentStatus # "" THEN leadData.currentStatus ELSE "New",
     leadStage |-> IF leadData.leadStage # "" THEN leadData.leadStage ELSE "Cold",
     nextFollowUpDate |-> leadData.nextFollowUpDate,
     lastFollowUpDate |-> NoText,
     isArchived |-> FALSE]

addLead(leadData) ==
    /\ side = "client"
    /\ LET err == validateLead(leadData) IN
       IF err # "ok"
       THEN /\ resp' = Resp("addLead", GhostId, "rejected", <<>>, err)
            /\ UNCHANGED <<leads, nextId>>
       ELSE /\ nextId <= MaxLeads
            /\ leads' = leads @@ (nextId :> newLead(leadData, nextId))
            /\ nextId' = nextId + 1
            /\ resp' = Resp("addLead", nextId, "resolved", <<newLead(leadData, nextId)>>, "")
    /\ UNCHANGED <<side, followUps, db_leads, db_follow_ups, now>>

updateLead(lead) ==
    /\ side = "client"
    /\ leads' = [k \in DOMAIN leads \cup {lead.leadId} |->
                    IF k = lead.leadId THEN lead ELSE leads[k]]
    /\ resp' = Resp("updateLead", lead.leadId, "resolved", <<lead>>, "")
    /\ UNCHANGED <<side, followUps, db_leads, db_follow_ups, nextId, now>>

\* A faulty archiveLead: the record is deleted instead of flagged.
archiveLead_delete(leadId) ==
    /\ side = "client"
    /\ leads' = [k \in DOMAIN leads \ {leadId} |-> leads[k]]
    /\ resp' = Resp("archiveLead", leadId, "resolved", <<>>, "")
    /\ UNCHANGED <<side, followUps, db_leads, db_follow_ups, nextId, now>>

archiveLead(leadId) ==
    /\ side = "client"
    /\ leads' = IF leadId \in DOMAIN leads
                THEN [leads EXCEPT ![leadId].isArchived = TRUE]
                ELSE leads
    /\ resp' = Resp("archiveLead", leadId, "resolved", <<>>, "")
    /\ UNCHANGED <<side, followUps, db_leads, db_follow_ups, nextId, now>>

\* The follow-up record addFollowUp builds from its input.
newFollowUp(followUpData) ==
    [leadId |-> followUpData.leadId,
     followUpDate |-> IF Truthy(followUpData.followUpDate)
                      THEN followUpData.followUpDate ELSE now,
     status |-> followUpData.status,
     nextFollowUpDate |-> followUpData.nextFollowUpDate]

\* A faulty cascadeLead: the next date of the input is not copied.
cascadeLead_keepsNextDate(lead, followUpData) ==
    [lead EXCEPT
        !.lastFollowUpDate = newFollowUp(followUpData).followUpDate,
        !.currentStatus = followUpData.status,
        !.leadStage = IF followUpData.leadStage # ""
                      THEN followUpData.leadStage ELSE @]

\* A faulty cascadeLead: the last date is the clock, not the follow-up's date.
cascadeLead_lastIsNow(lead, followUpData) ==
    [lead EXCEPT
        !.lastFollowUpDate = now,
        !.currentStatus = followUpData.status,
        !.nextFollowUpDate = IF Truthy(followUpData.nextFollowUpDate)
                             THEN followUpData.nextFollowUpDate ELSE @,
        !.leadStage = IF followUpData.leadStage # ""
                      THEN followUpData.leadStage ELSE @]

\* The lead addFollowUp puts back: status and last date always, the next
\* date and the stage when the input carries them.
cascadeLead(lead, followUpData) ==
    [lead EXCEPT
        !.lastFollowUpDate = newFollowUp(followUpData).followUpDate,
        !.currentStatus = followUpData.status,
        !.nextFollowUpDate = IF Truthy(followUpData.nextFollowUpDate)
                             THEN followUpData.nextFollowUpDate ELSE @,
        !.leadStage = IF followUpData.leadStage # ""
                      THEN followUpData.leadStage ELSE @]

\* A faulty txStores: the two writes are not in one transaction, so a failed
\* put leaves the follow-up that was added before it.
txStores_notAtomic(followUpData, outcome) ==
    LET id == followUpData.leadId
    IN [followUps |-> IF outcome \in {"ok", "putFailed"}
                      THEN Append(followUps, newFollowUp(followUpData))
                      ELSE followUps,
        leads |-> IF outcome = "ok" /\ id \in DOMAIN leads
                  THEN [leads EXCEPT ![id] = cascadeLead(leads[id], followUpData)]
                  ELSE leads]

\* The two object stores as the transaction leaves them: outcome "ok" commits
\* every write made inside it; a failed request (the add, the put) or a failed
\* commit aborts the transaction, and an aborted transaction writes nothing.
txStores(followUpData, outcome) ==
    LET id == followUpData.leadId
        staged ==
            [followUps |-> Append(followUps, newFollowUp(followUpData)),
             leads |-> IF id \in DOMAIN leads
                       THEN [leads EXCEPT ![id] = cascadeLead(leads[id], followUpData)]
                       ELSE leads]
    IN IF outcome = "ok" THEN staged
       ELSE [followUps |-> followUps, leads |-> leads]

TxOutcomes == {"ok", "addFailed", "putFailed", "commitFailed"}

addFollowUp(followUpData, outcome) ==
    /\ side = "client"
    /\ Len(followUps) < MaxFollowUps
    \* the put is only issued for a lead that exists
    /\ outcome = "putFailed" => followUpData.leadId \in DOMAIN leads
    /\ followUps' = txStores(followUpData, outcome).followUps
    /\ leads' = txStores(followUpData, outcome).leads
    /\ resp' = IF outcome = "ok"
               THEN Resp("addFollowUp", followUpData.leadId, "resolved",
                         <<newFollowUp(followUpData)>>, "")
               ELSE Resp("addFollowUp", followUpData.leadId, "rejected", <<>>, outcome)
    /\ UNCHANGED <<side, db_leads, db_follow_ups, nextId, now>>

\* A faulty isDueCall: the terminal statuses of the dashboard, two instead of four.
isDueCall_twoStatuses(l) ==
    IF l.isArchived THEN FALSE
    ELSE IF ~Truthy(l.nextFollowUpDate) THEN FALSE
    ELSE StrLE(l.nextFollowUpDate, todayStr)
         /\ l.currentStatus \notin {"Converted", "Not Interested"}

\* The filter of getTodaysCalls.
isDueCall(l) ==
    IF l.isArchived THEN FALSE
    ELSE IF ~Truthy(l.nextFollowUpDate) THEN FALSE
    ELSE StrLE(l.nextFollowUpDate, todayStr)
         /\ l.currentStatus \notin {"Converted", "Not Interested", "Fake lead", "Reject"}

todaysCalls == SelectSeq(GetAll(leads, DOMAIN leads), isDueCall)

getTodaysCalls ==
    /\ side = "client"
    /\ resp' = Resp("getTodaysCalls", GhostId, "resolved", todaysCalls, "")
    /\ UNCHANGED <<side, leads, followUps, db_leads, db_follow_ups, nextId, now>>

\* A faulty compareCalls: the operands are swapped, the order ascending.
compareCalls_ascending(a, b) == stagePriority(a.leadStage) - stagePriority(b.leadStage)

\* The comparator of loadCalls: negative when a sorts before b.
compareCalls(a, b) == stagePriority(b.leadStage) - stagePriority(a.leadStage)

\* Array.prototype.sort, which is stable: x goes after the last element that
\* does not sort after it.
RECURSIVE InsertSorted(_, _)
InsertSorted(sorted, x) ==
    IF sorted = <<>> THEN <<x>>
    ELSE IF compareCalls(sorted[Len(sorted)], x) <= 0 THEN Append(sorted, x)
    ELSE Append(InsertSorted(SubSeq(sorted, 1, Len(sorted) - 1), x), sorted[Len(sorted)])

RECURSIVE SortCalls(_)
SortCalls(s) ==
    IF s = <<>> THEN <<>>
    ELSE InsertSorted(SortCalls(SubSeq(s, 1, Len(s) - 1)), s[Len(s)])

\* TodaysCalls.jsx: the list the view sets as its state.
loadCalls ==
    /\ side = "client"
    /\ resp' = Resp("loadCalls", GhostId, "resolved", SortCalls(todaysCalls), "")
    /\ UNCHANGED <<side, leads, followUps, db_leads, db_follow_ups, nextId, now>>

\* The object both dashboards answer with.
Stats(totalLeads, callsDueToday, cold, warm, hot, converted) ==
    [totalLeads |-> totalLeads, callsDueToday |-> callsDueToday, cold |-> cold,
     warm |-> warm, hot |-> hot, converted |-> converted]

\* The value getDashboardStats resolves to: counts over getLeads(), the
\* leads that are not archived.
dashboardStats ==
    LET NotArchived(l) == ~l.isArchived
        all == SelectSeq(GetAll(leads, DOMAIN leads), NotArchived)
        today == SplitT(now)
        Due(l) == IF ~Truthy(l.nextFollowUpDate) THEN FALSE
                  ELSE StartsWith(l.nextFollowUpDate, today)
                       /\ l.currentStatus \notin {"Converted", "Not Interested"}
        Cold(l) == l.leadStage = "Cold"
        Warm(l) == l.leadStage = "Warm"
        Hot(l) == l.leadStage = "Hot"
        Converted(l) == l.currentStatus = "Converted"
    IN Stats(Len(all), Len(SelectSeq(all, Due)), Len(SelectSeq(all, Cold)),
             Len(SelectSeq(all, Warm)), Len(SelectSeq(all, Hot)),
             Len(SelectSeq(all, Converted)))

getDashboardStats ==
    /\ side = "client"
    /\ resp' = Resp("getDashboardStats", GhostId, "resolved", <<dashboardStats>>, "")
    /\ UNCHANGED <<side, leads, followUps, db_leads, db_follow_ups, nextId, now>>

---------------------------------------------------------------------------
\* backend/routes: the REST API over the database

\* routes/leads.js toCamelCase
toCamelCase(lead) ==
    [leadId |-> lead.lead_id,
     restaurantName |-> lead.restaurant_name,
     phone |-> lead.phone,
     currentStatus |-> lead.current_status,
     leadStage |-> lead.lead_stage,
     nextFollowUpDate |-> lead.next_follow_up_date,
     lastFollowUpDate |-> lead.last_follow_up_date]

\* routes/followUps.js toCamelCase
followUpToCamelCase(followUp) ==
    [leadId |-> followUp.lead_id,
     followUpDate |-> followUp.follow_up_date,
     status |-> followUp.status,
     nextFollowUpDate |-> followUp.next_follow_up_date]

\* The rows of table leads that .eq('lead_id', id) selects.
eqLeadId(id) == {db_leads[k] : k \in {x \in DOMAIN db_leads : x = id}}

\* .single(): the one row of the result; an error when the result has no row
\* or several.
single(rows) ==
    IF Cardinality(rows) = 1
    THEN [data |-> <<CHOOSE r \in rows : TRUE>>, error |-> ""]
    ELSE [data |-> <<>>, error |-> "JSON object requested, multiple (or no) rows returned"]

\* server.js error handling middleware
errorMiddleware(op, arg, message) ==
    Resp(op, arg, "500", <<>>, IF message # "" THEN message ELSE "Internal server error")

DbError == "database error"

\* .order('next_follow_up_date', { ascending: true, nullsFirst: false })
orderedByNextDate(s) ==
    \A i, j \in 1..Len(s) :
        i < j =>
            \/ ~Truthy(s[j].next_follow_up_date)
            \/ /\ Truthy(s[i].next_follow_up_date)
               /\ StrLE(s[i].next_follow_up_date, s[j].next_follow_up_date)

\* GET /api/leads
getAllLeadsRoute(dbOk) ==
    /\ side = "server"
    /\ IF ~dbOk
       THEN resp' = errorMiddleware("GET /api/leads", GhostId, DbError)
       ELSE \E data \in [1..Cardinality(DOMAIN db_leads) -> Range(GetAll(db_leads, DOMAIN db_leads))] :
              /\ Range(data) = Range(GetAll(db_leads, DOMAIN db_leads))
              /\ orderedByNextDate(data)
              /\ resp' = Resp("GET /api/leads", GhostId, "200",
                              [i \in 1..Len(data) |-> toCamelCase(data[i])], "")
    /\ UNCHANGED <<side, leads, followUps, db_leads, db_follow_ups, nextId, now>>

\* GET /api/leads/:id
getLeadRoute(id, dbOk) ==
    /\ side = "server"
    /\ LET r == IF dbOk THEN single(eqLeadId(id)) ELSE [data |-> <<>>, error |-> DbError]
       IN resp' = IF r.error # "" THEN errorMiddleware("GET /api/leads/:id", id, r.error)
                  ELSE IF r.data = <<>>
                       THEN Resp("GET /api/leads/:id", id, "404", <<>>, "Lead not found")
                  ELSE Resp("GET /api/leads/:id", id, "200", <<toCamelCase(r.data[1])>>, "")
    /\ UNCHANGED <<side, leads, followUps, db_leads, db_follow_ups, nextId, now>>

\* The row POST /api/leads inserts.
newLeadRow(body, id) ==
    [lead_id |-> id,
     restaurant_name |-> body.restaurantName,
     phone |-> body.phone,
     current_status |-> IF body.currentStatus # "" THEN body.currentStatus ELSE "New",
     lead_stage |-> IF body.leadStage # "" THEN body.leadStage ELSE "Cold",
     next_follow_up_date |-> body.nextFollowUpDate,
     last_follow_up_date |-> NoText]

\* POST /api/leads
postLeadRoute(body, dbOk) ==
    /\ side = "server"
    /\ IF ~dbOk
       THEN /\ resp' = errorMiddleware("POST /api/leads", GhostId, DbError)
            /\ UNCHANGED <<db_leads, nextId>>
       ELSE /\ nextId <= MaxLeads
            /\ db_leads' = db_leads @@ (nextId :> newLeadRow(body, nextId))
            /\ nextId' = nextId + 1
            /\ resp' = Resp("POST /api/leads", nextId, "201",
                            <<toCamelCase(newLeadRow(body, nextId))>>, "")
    /\ UNCHANGED <<side, leads, followUps, db_follow_ups, now>>

\* The row PUT /api/leads/:id leaves: every column of the body, the two dates
\* null when the body does not carry them.
updatedLeadRow(row, body) ==
    [row EXCEPT
        !.restaurant_name = body.restaurantName,
        !.phone = body.phone,
        !.current_status = body.currentStatus,
        !.lead_stage = body.leadStage,
        !.next_follow_up_date = body.nextFollowUpDate,
        !.last_follow_up_date = body.lastFollowUpDate]

\* PUT /api/leads/:id
putLeadRoute(id, body, dbOk) ==
    /\ side = "server"
    /\ IF ~dbOk
       THEN /\ resp' = errorMiddleware("PUT /api/leads/:id", id, DbError)
            /\ UNCHANGED db_leads
       ELSE /\ db_leads' = [k \in DOMAIN db_leads |->
                              IF k = id THEN updatedLeadRow(db_leads[k], body)
                              ELSE db_leads[k]]
            /\ LET r == single({db_leads'[k] : k \in {x \in DOMAIN db_leads : x = id}})
               IN resp' = IF r.error # ""
                          THEN errorMiddleware("PUT /api/leads/:id", id, r.error)
                          ELSE Resp("PUT /api/leads/:id", id, "200",
                                    <<toCamelCase(r.data[1])>>, "")
    /\ UNCHANGED <<side, leads, followUps, db_follow_ups, nextId, now>>

\* The table leads after .delete().eq('lead_id', id)
deleteLeadRows(id) == [k \in DOMAIN db_leads \ {id} |-> db_leads[k]]

\* DELETE /api/leads/:id
deleteLeadRoute(id, dbOk) ==
    /\ side = "server"
    /\ IF ~dbOk
       THEN /\ resp' = errorMiddleware("DELETE /api/leads/:id", id, DbError)
            /\ UNCHANGED db_leads
       ELSE /\ db_leads' = deleteLeadRows(id)
            /\ resp' = Resp("DELETE /api/leads/:id", id, "200", <<>>,
                            "Lead deleted successfully")
    /\ UNCHANGED <<side, leads, followUps, db_follow_ups, nextId, now>>

\* routes/dashboard.js: the filter of callsDueToday throws RangeError when
\* toISOString is called on an Invalid Date.
statsThrows ==
    \E k \in DOMAIN db_leads :
        /\ Truthy(db_leads[k].next_follow_up_date)
        /\ NewDate(db_leads[k].next_follow_up_date) = InvalidDate

\* routes/dashboard.js: the body of the 200 response, counts over every row
\* of table leads.
statsRouteBody ==
    LET all == GetAll(db_leads, DOMAIN db_leads)
        today == SplitT(now)
        Due(l) == IF ~Truthy(l.next_follow_up_date) THEN FALSE
                  ELSE SplitT(toISOString(NewDate(l.next_follow_up_date))) = today
                       /\ l.current_status \notin {"Converted", "Not Interested"}
        Cold(l) == l.lead_stage = "Cold"
        Warm(l) == l.lead_stage = "Warm"
        Hot(l) == l.lead_stage = "Hot"
        Converted(l) == l.current_status = "Converted"
    IN Stats(Len(all), Len(SelectSeq(all, Due)), Len(SelectSeq(all, Cold)),
             Len(SelectSeq(all, Warm)), Len(SelectSeq(all, Hot)),
             Len(SelectSeq(all, Converted)))

\* GET /api/dashboard/stats
getStatsRoute(dbOk) ==
    /\ side = "server"
    /\ resp' = IF ~dbOk
               THEN errorMiddleware("GET /api/dashboard/stats", GhostId, DbError)
               ELSE IF statsThrows
                    THEN errorMiddleware("GET /api/dashboard/stats", GhostId,
                                         "Invalid time value")
               ELSE Resp("GET /api/dashboard/stats", GhostId, "200",
                         <<statsRouteBody>>, "")
    /\ UNCHANGED <<side, leads, followUps, db_leads, db_follow_ups, nextId, now>>

\* The row POST /api/follow-ups inserts.
newFollowUpRow(body) ==
    [lead_id |-> body.leadId,
     follow_up_date |-> IF Truthy(body.followUpDate) THEN body.followUpDate ELSE now,
     status |-> body.status,
     next_follow_up_date |-> body.nextFollowUpDate]

\* The lead row after the update POST /api/follow-ups sends.
leadUpdate(row, body) ==
    [row EXCEPT
        !.last_follow_up_date = newFollowUpRow(body).follow_up_date,
        !.current_status = body.status,
        !.next_follow_up_date = IF Truthy(body.nextFollowUpDate)
                                THEN body.nextFollowUpDate ELSE @,
        !.lead_stage = IF body.leadStage # "" THEN body.leadStage ELSE @]

PostOutcomes == {"ok", "insertError", "updateError"}

\* A faulty followUpRowsAfterPost: the inserted row is taken back when the
\* update of the lead fails.
followUpRowsAfterPost_compensated(body, outcome) ==
    IF outcome = "ok" THEN Append(db_follow_ups, newFollowUpRow(body))
    ELSE db_follow_ups

\* Table follow_ups after POST /api/follow-ups: the row is inserted unless the
\* insert itself fails; nothing takes it back when the update fails.
followUpRowsAfterPost(body, outcome) ==
    IF outcome = "insertError" THEN db_follow_ups
    ELSE Append(db_follow_ups, newFollowUpRow(body))

\* Table leads after POST /api/follow-ups: the update is sent only after the
\* insert succeeded, and changes the rows .eq('lead_id', leadId) selects.
leadRowsAfterPost(body, outcome) ==
    IF outcome = "ok"
    THEN [k \in DOMAIN db_leads |->
            IF k = body.leadId THEN leadUpdate(db_leads[k], body) ELSE db_leads[k]]
    ELSE db_leads

\* POST /api/follow-ups: the insert, then the update of the lead, each a call
\* of its own; an error of either is thrown to the error middleware.
postFollowUpRoute(body, outcome) ==
    /\ side = "server"
    /\ Len(db_follow_ups) < MaxFollowUps
    /\ db_follow_ups' = followUpRowsAfterPost(body, outcome)
    /\ db_leads' = leadRowsAfterPost(body, outcome)
    /\ resp' = IF outcome = "ok"
               THEN Resp("POST /api/follow-ups", body.leadId, "201",
                         <<followUpToCamelCase(newFollowUpRow(body))>>, "")
               ELSE errorMiddleware("POST /api/follow-ups", body.leadId, DbError)
    /\ UNCHANGED <<side, leads, followUps, nextId, now>>

---------------------------------------------------------------------------
\* Specifications

NoResp == Resp("", GhostId, "", <<>>, "")

Init ==
    /\ side \in {"client", "server"}
    /\ leads = <<>>
    /\ followUps = <<>>
    /\ db_leads = <<>>
    /\ db_follow_ups = <<>>
    /\ nextId = 1
    /\ now = Timestamp(1)
    /\ resp = NoResp

ClientIds == DOMAIN leads \cup {GhostId}
ServerIds == 0..(nextId - 1)

\* The object an edit form passes to updateLead: the stored lead with the
\* fields of the form replaced.
Edited(lead, e) ==
    [lead EXCEPT
        !.restaurantName = e.restaurantName, !.phone = e.phone,
        !.currentStatus = e.currentStatus, !.leadStage = e.leadStage,
        !.nextFollowUpDate = e.nextFollowUpDate]

NextClient ==
    \/ \E b \in BOOLEAN : getLeads(b)
    \/ \E id \in ClientIds : getLead(id)
    \/ \E d \in LeadInputs(NameInputs, PhoneInputs) : addLead(d)
    \/ \E id \in DOMAIN leads, e \in EditInputs : updateLead(Edited(leads[id], e))
    \/ \E id \in ClientIds : archiveLead(id)
    \/ \E d \in FollowUpInputs(DOMAIN leads), o \in TxOutcomes : addFollowUp(d, o)
    \/ getTodaysCalls
    \/ loadCalls
    \/ getDashboardStats

NextServer ==
    \/ \E ok \in BOOLEAN : getAllLeadsRoute(ok)
    \/ \E id \in ServerIds, ok \in BOOLEAN : getLeadRoute(id, ok)
    \/ \E d \in LeadInputs({<<"a">>, <<"a", "<">>}, {<<"1">>}), ok \in BOOLEAN : postLeadRoute(d, ok)
    \/ \E id \in ServerIds, e \in EditInputs, ok \in BOOLEAN : putLeadRoute(id, e, ok)
    \/ \E id \in ServerIds, ok \in BOOLEAN : deleteLeadRoute(id, ok)
    \/ \E d \in FollowUpInputs(ServerIds), o \in PostOutcomes : postFollowUpRoute(d, o)
    \/ \E ok \in BOOLEAN : getStatsRoute(ok)

Next == NextClient \/ NextServer

Spec == Init /\ [][Next]_vars

InitClient == Init /\ side = "client"

InitServer == Init /\ side = "server"

SpecClient == InitClient /\ [][NextClient]_vars

SpecServer == InitServer /\ [][NextServer]_vars

---------------------------------------------------------------------------
\* The view over any store the client can hold

TerminalStatuses == {"Converted", "Not Interested", "Fake lead", "Reject"}

StoredLeads(statuses, stages, dates, flags) ==
    [leadId : {GhostId}, restaurantName : {<<"a">>}, phone : {<<"1">>},
     currentStatus : statuses, leadStage : stages, nextFollowUpDate : dates,
     lastFollowUpDate : {NoText}, isArchived : flags]

\* The stores of at most n leads drawn from a set of leads, keyed 1..n.
Stores(n, from) ==
    UNION { { [i \in 1..k |-> [f[i] EXCEPT !.leadId = i]] : f \in [1..k -> from] }
            : k \in 0..n }

InitAnyStore(stores) ==
    /\ side = "client"
    /\ leads \in stores
    /\ followUps = <<>>
    /\ db_leads = <<>>
    /\ db_follow_ups = <<>>
    /\ nextId = Cardinality(DOMAIN leads) + 1
    /\ now \in {Timestamp(d) : d \in Days}
    /\ resp = NoResp

NextView == getTodaysCalls \/ loadCalls

\* Every status that matters to the filter, every shape of date.
SpecView ==
    /\ InitAnyStore(Stores(MaxViewLeads,
           StoredLeads(TerminalStatuses \cup {"New", "Follow up"}, {"Cold"},
                       {NoText} \cup {DateOnly(d) : d \in Days}
                                \cup {Timestamp(d) : d \in Days},
                       BOOLEAN)))
    /\ [][NextView]_vars

\* More leads, every stage (and a stage the priority table does not list).
SpecSort ==
    /\ InitAnyStore(Stores(MaxSortLeads,
           StoredLeads({"New", "Converted"}, {"Hot", "Warm", "Cold", "Closed", "Lost"},
                       {DateOnly(1)}, {FALSE})))
    /\ [][NextView]_vars

---------------------------------------------------------------------------
\* The two dashboards over the same leads

\* The row of table leads that holds a lead of the client store.
rowOf(lead) ==
    [lead_id |-> lead.leadId,
     restaurant_name |-> lead.restaurantName,
     phone |-> lead.phone,
     current_status |-> lead.currentStatus,
     lead_stage |-> lead.leadStage,
     next_follow_up_date |-> lead.nextFollowUpDate,
     last_follow_up_date |-> lead.lastFollowUpDate]

\* The client store holds leads of a set of stores, the table holds the same
\* leads, and the clock reads the same on both sides.
InitSameLeads(stores) ==
    /\ side \in {"client", "server"}
    /\ leads \in stores
    /\ db_leads = [k \in DOMAIN leads |-> rowOf(leads[k])]
    /\ followUps = <<>>
    /\ db_follow_ups = <<>>
    /\ nextId = Cardinality(DOMAIN leads) + 1
    /\ now \in {Timestamp(d) : d \in Days}
    /\ resp = NoResp

NextStats == getDashboardStats \/ \E ok \in BOOLEAN : getStatsRoute(ok)

\* Every status and stage the counts tell apart, every shape of date.
SpecStats ==
    /\ InitSameLeads(Stores(MaxStatsLeads,
           StoredLeads({"New", "Converted", "Not Interested"},
                       {"Cold", "Warm", "Hot", "Closed"},
                       {NoText, NotADate}
                            \cup {DateOnly(d) : d \in Days}
                            \cup {Timestamp(d) : d \in Days}
                            \cup {OffsetTimestamp(d) : d \in Days},
                       BOOLEAN)))
    /\ [][NextStats]_vars

---------------------------------------------------------------------------
\* Properties

Last(s) == s[Len(s)]

\* The last operation recorded a follow-up and succeeded.
FollowUpRecorded ==
    \/ resp.op = "addFollowUp" /\ resp.status = "resolved"
    \/ resp.op = "POST /api/follow-ups" /\ resp.status = "201"

\* The lead the last operation was about, in the field names of the API;
\* <<>> when the store holds no such lead.
LeadAbout ==
    IF side = "client"
    THEN (IF resp.arg \in DOMAIN leads THEN <<leads[resp.arg]>> ELSE <<>>)
    ELSE (IF resp.arg \in DOMAIN db_leads THEN <<toCamelCase(db_leads[resp.arg])>> ELSE <<>>)

\* C1: once a follow-up with status S and a supplied next date D has been
\* recorded for a lead that exists, by addFollowUp or by POST /api/follow-ups,
\* that lead has currentStatus = S and nextFollowUpDate = D.
C1_FollowUpSetsStatusAndNextDate ==
    (FollowUpRecorded /\ Truthy(resp.body[1].nextFollowUpDate) /\ LeadAbout # <<>>)
        => /\ LeadAbout[1].currentStatus = resp.body[1].status
           /\ LeadAbout[1].nextFollowUpDate = resp.body[1].nextFollowUpDate

\* C1 witness: a follow-up with a next date was recorded for a lead that was
\* created with another status and another next date.
C1_Witness ==
    /\ FollowUpRecorded
    /\ LeadAbout # <<>>
    /\ resp.body[1].status = "Follow up"
    /\ resp.body[1].nextFollowUpDate = DateOnly(MaxDay)
    /\ LeadAbout[1].leadStage = "Hot"
    /\ LeadAbout[1].nextFollowUpDate = DateOnly(MaxDay)

\* The follow-ups of both logs that reference a lead, oldest first.
FollowUpsOf(id) ==
    LET Mine(f) == f.leadId = id
        MineRow(f) == f.lead_id = id
    IN IF side = "client" THEN SelectSeq(followUps, Mine)
       ELSE [i \in 1..Len(SelectSeq(db_follow_ups, MineRow)) |->
                followUpToCamelCase(SelectSeq(db_follow_ups, MineRow)[i])]

StoredLeadIds == IF side = "client" THEN DOMAIN leads ELSE DOMAIN db_leads

StoredLead(id) == IF side = "client" THEN leads[id] ELSE toCamelCase(db_leads[id])

\* C2 as stated: in every reachable state a lead with follow-ups has the
\* status and the date of the one inserted last, and a lead without any has
\* no lastFollowUpDate.
C2_LeadReflectsLatestFollowUp ==
    \A id \in StoredLeadIds :
        IF FollowUpsOf(id) # <<>>
        THEN /\ StoredLead(id).currentStatus = Last(FollowUpsOf(id)).status
             /\ StoredLead(id).lastFollowUpDate = Last(FollowUpsOf(id)).followUpDate
        ELSE StoredLead(id).lastFollowUpDate = NoText

\* C2 amended: right after a follow-up has been recorded for a lead that
\* exists, the lead has the status and the date of the follow-up inserted
\* last among those that reference it.
C2_LeadReflectsFollowUpJustRecorded ==
    (FollowUpRecorded /\ LeadAbout # <<>>)
        => /\ FollowUpsOf(resp.arg) # <<>>
           /\ LeadAbout[1].currentStatus = Last(FollowUpsOf(resp.arg)).status
           /\ LeadAbout[1].lastFollowUpDate = Last(FollowUpsOf(resp.arg)).followUpDate

\* C2 witness: the second follow-up of a lead was just recorded, with another
\* status and date than the first.
C2_Witness ==
    /\ FollowUpRecorded
    /\ LeadAbout # <<>>
    /\ Len(FollowUpsOf(resp.arg)) = 2
    /\ FollowUpsOf(resp.arg)[1].status # FollowUpsOf(resp.arg)[2].status
    /\ FollowUpsOf(resp.arg)[1].followUpDate # FollowUpsOf(resp.arg)[2].followUpDate

\* C3 as stated: every stored follow-up references a lead that is in the
\* lead store.
C3_NoFollowUpWithoutLead ==
    /\ \A i \in 1..Len(followUps) : followUps[i].leadId \in DOMAIN leads
    /\ \A i \in 1..Len(db_follow_ups) : db_follow_ups[i].lead_id \in DOMAIN db_leads

\* A lead qualifies for today's calls: not archived, a next date that is set
\* and, as a string, at most the date prefix of the clock, and a status
\* outside the terminal set.
QualifiesToday(l) ==
    /\ l.isArchived = FALSE
    /\ l.nextFollowUpDate # NoText
    /\ StrLE(l.nextFollowUpDate, todayStr)
    /\ l.currentStatus \notin TerminalStatuses

Stages(s) == [i \in 1..Len(s) |-> s[i].leadStage]

\* C5: the list of the view is a permutation of the qualifying leads in which
\* no lead comes before a lead of strictly higher stage priority; qualifying
\* leads stored as Cold, Hot, Warm are listed Hot, Warm, Cold.
C5_CallsByPriorityDescending ==
    resp.op = "loadCalls"
        => /\ Range(resp.body) = {leads[k] : k \in {x \in DOMAIN leads : QualifiesToday(leads[x])}}
           /\ Len(resp.body) = Cardinality(Range(resp.body))
           /\ \A i, j \in 1..Len(resp.body) :
                 i < j => stagePriority(resp.body[i].leadStage)
                            >= stagePriority(resp.body[j].leadStage)
           /\ Stages(todaysCalls) = <<"Cold", "Hot", "Warm">>
                 => Stages(resp.body) = <<"Hot", "Warm", "Cold">>

\* C5 witness: three qualifying leads stored as Cold, Hot, Warm were listed.
C5_Witness ==
    /\ resp.op = "loadCalls"
    /\ Stages(todaysCalls) = <<"Cold", "Hot", "Warm">>
    /\ Len(resp.body) = 3

\* C6: a step of the client store that adds a follow-up adds exactly one, and
\* leaves the lead it references, when that lead exists, with the status and
\* the date of that follow-up; a step of addFollowUp that fails changes
\* neither object store.
C6_FollowUpTransactionAllOrNothing ==
    [][ /\ followUps' # followUps
            => /\ Len(followUps') = Len(followUps) + 1
               /\ SubSeq(followUps', 1, Len(followUps)) = followUps
               /\ Last(followUps').leadId \in DOMAIN leads
                    => /\ leads'[Last(followUps').leadId].currentStatus
                            = Last(followUps').status
                       /\ leads'[Last(followUps').leadId].lastFollowUpDate
                            = Last(followUps').followUpDate
        /\ (resp'.op = "addFollowUp" /\ resp'.status = "rejected")
            => (followUps' = followUps /\ leads' = leads)
        /\ (resp'.op = "addFollowUp" /\ resp'.status = "resolved")
            => followUps' # followUps
      ]_vars

\* C6 witness: the put of the lead failed inside the transaction while the
\* store holds leads.
C6_Witness ==
    /\ resp.op = "addFollowUp"
    /\ resp.status = "rejected"
    /\ resp.error = "putFailed"
    /\ resp.arg \in DOMAIN leads

\* C7: in every step of POST /api/follow-ups, a failed insert leaves both
\* tables as they were and answers 500; a failed update of the lead after the
\* insert answers 500, keeps the inserted row at the end of the log and leaves
\* every lead as it was; and a lead changes only together with an insert.
C7_PostFollowUpNotCompensated ==
    [][ resp'.op = "POST /api/follow-ups" =>
        \A d \in FollowUpInputs(ServerIds), o \in PostOutcomes :
          postFollowUpRoute(d, o)
            => /\ o = "insertError"
                    => /\ db_follow_ups' = db_follow_ups
                       /\ db_leads' = db_leads
                       /\ resp'.status = "500"
               /\ o = "updateError"
                    => /\ resp'.status = "500"
                       /\ Len(db_follow_ups') = Len(db_follow_ups) + 1
                       /\ SubSeq(db_follow_ups', 1, Len(db_follow_ups)) = db_follow_ups
                       /\ Last(db_follow_ups').lead_id = d.leadId
                       /\ Last(db_follow_ups').status = d.status
                       /\ db_leads' = db_leads
               /\ db_leads' # db_leads => db_follow_ups' # db_follow_ups
      ]_vars

\* C7 witness: the request failed, and the follow-up at the end of the log
\* references a lead that has neither its status nor its date.
C7_Witness ==
    /\ resp.op = "POST /api/follow-ups"
    /\ resp.status = "500"
    /\ db_follow_ups # <<>>
    /\ Last(db_follow_ups).lead_id = resp.arg
    /\ resp.arg \in DOMAIN db_leads
    /\ db_leads[resp.arg].current_status # Last(db_follow_ups).status
    /\ db_leads[resp.arg].last_follow_up_date # Last(db_follow_ups).follow_up_date

\* C8 as stated: a lookup of a lead that was created and is no longer in the
\* table, answered without a failure of the database, is the 404 'Lead not
\* found' response; and a listing holds no lead that is not in the table.
C8_DeletedLeadIsNotFound ==
    /\ (/\ resp.op = "GET /api/leads/:id"
        /\ resp.arg \in 1..(nextId - 1)
        /\ resp.arg \notin DOMAIN db_leads
        /\ resp.error # DbError)
            => (resp.status = "404" /\ resp.error = "Lead not found")
    /\ (resp.op = "GET /api/leads" /\ resp.status = "200")
            => \A i \in 1..Len(resp.body) : resp.body[i].leadId \in DOMAIN db_leads

\* The inputs C9 is about: no name, a name with < or >, no phone, a phone
\* with a letter.
Letters == {"a"}

Malformed(d) ==
    \/ d.restaurantName = <<>>
    \/ \E i \in 1..Len(d.restaurantName) : d.restaurantName[i] \in {"<", ">"}
    \/ d.phone = <<>>
    \/ \E i \in 1..Len(d.phone) : d.phone[i] \in Letters

\* C9: validateLead throws for every malformed input; a lead addLead has
\* stored is not malformed; and a step of addLead that is rejected leaves the
\* lead store, the follow-up log and the identifier counter as they were.
C9_MalformedLeadIsNotWritten ==
    /\ [](/\ \A d \in LeadInputs(NameInputs, PhoneInputs) :
                Malformed(d) => validateLead(d) # "ok"
          /\ (resp.op = "addLead" /\ resp.status = "resolved")
                => (~Malformed(resp.body[1]) /\ leads[resp.arg] = resp.body[1]))
    /\ [][ (resp'.op = "addLead" /\ resp'.status = "rejected")
                => /\ resp'.error # ""
                   /\ leads' = leads
                   /\ followUps' = followUps
                   /\ nextId' = nextId
         ]_vars

\* C9 witness: a create was rejected for the characters of its name while the
\* store holds a lead.
C9_Witness ==
    /\ resp.op = "addLead"
    /\ resp.status = "rejected"
    /\ resp.error = "Invalid characters in name. Please remove < or > symbols."
    /\ DOMAIN leads # {}

\* C10: an archived lead is in no default listing, is in every listing that
\* includes archived leads and is what a lookup by its id returns; a step of
\* archiveLead on a stored lead sets its flag and nothing else; and no step
\* removes a lead from the client store.
C10_ArchiveKeepsTheLead ==
    /\ [](/\ (resp.op = "getLeads" /\ resp.arg = FALSE)
                => \A k \in DOMAIN leads : leads[k].isArchived => leads[k] \notin Range(resp.body)
          /\ (resp.op = "getLeads" /\ resp.arg = TRUE)
                => \A k \in DOMAIN leads : leads[k] \in Range(resp.body)
          /\ (resp.op = "getLead" /\ resp.arg \in DOMAIN leads)
                => resp.body = <<leads[resp.arg]>>)
    /\ [][ /\ DOMAIN leads \subseteq DOMAIN leads'
           /\ (resp'.op = "archiveLead" /\ resp'.arg \in DOMAIN leads)
                => leads' = [leads EXCEPT ![resp'.arg].isArchived = TRUE]
         ]_vars

\* C10 witness: a lookup by id returned an archived lead.
C10_Witness ==
    /\ resp.op = "getLead"
    /\ resp.arg \in DOMAIN leads
    /\ leads[resp.arg].isArchived
    /\ resp.body = <<leads[resp.arg]>>


\* The last operation created a lead.
LeadCreated ==
    \/ resp.op = "addLead" /\ resp.status = "resolved"
    \/ resp.op = "POST /api/leads" /\ resp.status = "201"

\* The identifiers the stored leads carry.
LeadIdsStored == {StoredLead(k).leadId : k \in StoredLeadIds}

\* C11: a step that creates a lead from a valid input stores one more lead,
\* under an identifier no lead stored before the step carries (also when the
\* input carries a leadId of its own), and leaves the leads stored before as
\* they were; the new lead has status New when the input gives none and stage
\* Cold when it gives none, and the status and the stage of the input
\* otherwise; and no two stored leads ever carry the same identifier.
C11_CreateAssignsFreshIdAndDefaults ==
    /\ [](\A j, k \in StoredLeadIds :
             j # k => StoredLead(j).leadId # StoredLead(k).leadId)
    /\ [][ LeadCreated' =>
            /\ resp'.body[1].leadId \notin LeadIdsStored
            /\ resp'.body[1].leadId \in LeadIdsStored'
            /\ Cardinality(LeadIdsStored') = Cardinality(LeadIdsStored) + 1
            /\ \E k \in StoredLeadIds' \ StoredLeadIds : StoredLead(k)' = resp'.body[1]
            /\ \A k \in StoredLeadIds : StoredLead(k)' = StoredLead(k)
            /\ \A d \in LeadInputs(NameInputs, PhoneInputs) :
                  (/\ validateLead(d) = "ok"
                   /\ addLead(d) \/ \E ok \in BOOLEAN : postLeadRoute(d, ok))
                    => /\ resp'.body[1].currentStatus =
                            (IF d.currentStatus = "" THEN "New" ELSE d.currentStatus)
                       /\ resp'.body[1].leadStage =
                            (IF d.leadStage = "" THEN "Cold" ELSE d.leadStage)
                       /\ resp'.body[1].restaurantName = d.restaurantName
                       /\ resp'.body[1].phone = d.phone
         ]_vars

\* C11 witness: the input that carries the leadId of the first lead, a status
\* and a stage was stored as a second lead, beside a first lead that was
\* created with the defaults.
C11_Witness ==
    /\ LeadCreated
    /\ resp.body[1].leadId = 2
    /\ resp.body[1].currentStatus = "Converted"
    /\ resp.body[1].leadStage = "Hot"
    /\ 1 \in StoredLeadIds
    /\ StoredLead(1).leadId = 1
    /\ StoredLead(1).currentStatus = "New"
    /\ StoredLead(1).leadStage = "Cold"


\* C12 as stated: over the same leads and with the same clock, the client's
\* getDashboardStats and GET /api/dashboard/stats answer the same six counts:
\* what the client resolves to is what the server would answer, and what the
\* server answers, when its database call succeeds, is what the client would
\* resolve to.
C12_StatsAgree ==
    /\ resp.op = "getDashboardStats"
            => (~statsThrows /\ resp.body = <<statsRouteBody>>)
    /\ (resp.op = "GET /api/dashboard/stats" /\ resp.error # DbError)
            => (resp.status = "200" /\ resp.body = <<dashboardStats>>)


\* The characters C13 allows in a phone: digits, +, -, space and parentheses.
PhoneCharacters == {"1", "+", "-", " ", "(", ")"}

\* C13 as stated: in every reachable state every stored lead has a name that
\* is not empty and holds neither < nor >, and a phone that is not empty and
\* holds only digits, +, -, spaces and parentheses.
C13_StoredLeadsAreValid ==
    \A k \in StoredLeadIds :
        /\ StoredLead(k).restaurantName # <<>>
        /\ \A i \in 1..Len(StoredLead(k).restaurantName) :
              StoredLead(k).restaurantName[i] \notin {"<", ">"}
        /\ StoredLead(k).phone # <<>>
        /\ \A i \in 1..Len(StoredLead(k).phone) :
              StoredLead(k).phone[i] \in PhoneCharacters

=============================================================================
